---------------------------- MODULE Spec2Model ----------------------------
(***************************************************************************)
(* A model of strawberry/permission.py: BasePermission (the capability:    *)
(* has_permission, on_unauthorized, the memoized schema_directive) and     *)
(* PermissionExtension (apply, _on_unauthorized, resolve, resolve_async,   *)
(* supports_sync).                                                         *)
(*                                                                         *)
(* Python objects are modelled by value plus an identity: a value is a     *)
(* record [tag, id, data, ext, pos].  A call's outcome is a record         *)
(* [kind, val] with kind "return" or "raise".                              *)
(***************************************************************************)
EXTENDS Integers, Sequences, FiniteSets, TLC

\* The longest permission list handed to PermissionExtension.__init__.
MaxLen == 2

\* The permission instances of the program: three instances of three
\* BasePermission subclasses (see message/error_class/on_unauthorized below).
Perms == {1, 2, 3}

\* The shapes of field.type that apply tells apart.
FieldTypes == {"scalar", "optional", "list", "optional_list"}

\* The (source, info, kwargs) triples a request is made with.
Args == {"a1", "a2"}

\* What a permission's check decides for one request: True, False, or an
\* exception raised by the body of has_permission.
Verdicts == {"grant", "deny", "raise"}

\* What the wrapped resolver next_ hands back: a plain value, an awaitable
\* (coroutine / future), or an async generator.
NextShapes == {"plain", "future", "asyncgen"}

-----------------------------------------------------------------------------
(* Values and outcomes *)

MkVal(tag, id, data, ext, pos) ==
    [tag |-> tag, id |-> id, data |-> data, ext |-> ext, pos |-> pos]

NoneVal   == MkVal("None", "", "", {}, 0)
EmptyList == MkVal("list", "", "", {}, 0)
TrueVal   == MkVal("bool", "", "True", {}, 0)
FalseVal  == MkVal("bool", "", "False", {}, 0)

\* A coroutine object made by calling an `async def has_permission`: its body
\* has not run; `data` is what awaiting it will produce.
Coroutine(verdict) == MkVal("coroutine", "", verdict, {}, 0)

\* An exception instance: class, message, extensions mapping (a set of
\* <<key, value>> pairs with distinct keys).
ErrorVal(cls, msg, ext) == MkVal("error", cls, msg, ext, 0)

Return(v) == [kind |-> "return", val |-> v]
Raise(e)  == [kind |-> "raise", val |-> e]
Pending   == [kind |-> "pending", val |-> NoneVal]

\* Python truth value of an object (`not x`).
Truthy(v) ==
    ~ \/ v.tag = "None"
      \/ (v.tag = "bool" /\ v.data = "False")
      \/ v.tag = "list"

\* The result of a check taken as it is, never awaited.
IsAwaitableNever(v) == FALSE

\* inspect.isawaitable
IsAwaitable(v) == v.tag \in {"coroutine", "future"}

\* No test for an async generator before `await next`.
IsAsyncGenNever(v) == FALSE

\* inspect.isasyncgen
IsAsyncGen(v) == v.tag = "asyncgen"

-----------------------------------------------------------------------------
(* BasePermission: the class attributes of the three permission classes *)

\* BasePermission.message: <<>> is None (unset), <<m>> is the string m.
message(p) ==
    CASE p = 1 -> <<"m1">>
      [] p = 2 -> <<>>
      [] OTHER -> <<"m3">>

\* BasePermission.error_extensions: {} is None.
error_extensions(p) ==
    CASE p = 2 -> {<<"code", "P2">>, <<"perm", "2">>}
      [] OTHER -> {}

\* BasePermission.error_class: the default StrawberryGraphQLError, or a
\* subclass of GraphQLError.
error_class(p) ==
    CASE p = 2 -> "CustomError"
      [] OTHER -> "StrawberryGraphQLError"

\* The extensions mapping an error of class cls carries when constructed
\* from a message alone.
ClassExtensions(cls) ==
    CASE cls = "CustomError" -> {<<"code", "E0">>, <<"origin", "cls">>}
      [] OTHER -> {}

\* Whether the permission class overrides on_unauthorized with a method that
\* returns normally instead of raising.
OverridesOnUnauthorized(p) == p = 3

Keys(ext) == {kv[1] : kv \in ext}

\* dict.update with its arguments swapped: the error's own entries win.
DictUpdateKeepsOld(ext, more) == {kv \in more : kv[1] \notin Keys(ext)} \cup ext

\* dict.update: the entries of `more` replace those of `ext` with the same key.
DictUpdate(ext, more) == {kv \in ext : kv[1] \notin Keys(more)} \cup more

\* `self.message or ""` for a message attribute msg (<<>> is None)
OrEmpty(msg) == IF msg = <<>> THEN "" ELSE msg[1]

\* The body of BasePermission.on_unauthorized on a permission whose class has
\* error_class cls (constructing errors that carry the extensions pre),
\* message msg and error_extensions more.
RaiseUnauthorized(cls, msg, pre, more) ==
    LET error == ErrorVal(cls, OrEmpty(msg), pre)
    IN  IF more # {}
        THEN Raise(ErrorVal(cls, error.data, DictUpdate(error.ext, more)))
        ELSE Raise(error)

\* `self.message or ""`
MessageOrEmpty(p) == OrEmpty(message(p))

\* BasePermission.on_unauthorized, the default implementation.
DefaultOnUnauthorized(p) ==
    RaiseUnauthorized(error_class(p), message(p),
                      ClassExtensions(error_class(p)), error_extensions(p))

\* permission.on_unauthorized() as the extension calls it: the class's
\* override when there is one, the default otherwise.
on_unauthorized(p) ==
    IF OverridesOnUnauthorized(p) THEN Return(NoneVal)
    ELSE DefaultOnUnauthorized(p)

\* The exception raised by the body of a has_permission that fails.
CheckError == ErrorVal("CheckError", "check failed", {})

\* `await x` on an object that is not awaitable.
AwaitTypeError == ErrorVal("TypeError", "object can't be used in 'await' expression", {})

\* PermissionFailSilentlyRequiresOptionalError(field)
ConfigurationError == ErrorVal("PermissionFailSilentlyRequiresOptionalError", "", {})

-----------------------------------------------------------------------------
(* State *)

VARIABLES
    permissions,        \* PermissionExtension.permissions: a list of Perms
    use_directives,     \* PermissionExtension.use_directives
    fail_silently,      \* PermissionExtension.fail_silently
    return_empty_list,  \* PermissionExtension.return_empty_list
    sync_cache,         \* the cached_property slot of supports_sync: <<>> or <<b>>
    declared_async,     \* per permission: iscoroutinefunction(p.has_permission)
    directive_slot,     \* per permission: _schema_directive (0 is None, else an object id)
    next_object,        \* the identity the next AutoDirective() object gets
    field,              \* the StrawberryField last handed to apply
    apply_outcome,      \* how the last apply call ended
    frames,             \* per invocation of resolve / resolve_async: its frame and trace
    sync_reads,         \* what the reads of supports_sync returned
    unauthorized,       \* the last direct call of a permission's default on_unauthorized
    getters             \* per thread: its read of a permission's schema_directive

vars == <<permissions, use_directives, fail_silently, return_empty_list,
          sync_cache, declared_async, directive_slot, next_object, field,
          apply_outcome, frames, sync_reads, unauthorized, getters>>

\* What the extension's methods never touch: the records of direct calls on
\* the permissions.
permission_calls == <<unauthorized, getters>>

extension_vars == <<permissions, use_directives, fail_silently, return_empty_list>>

-----------------------------------------------------------------------------
(* One invocation of resolve / resolve_async: its frame and what it did *)

\* The invocations: the first is the one every specification runs; the others
\* run beside it where invocations are interleaved.
Requests == {1, 2}

\* The frame before the call.
IdleFrame ==
    [pc |-> "idle", mode |-> "none", args |-> "", verdict |-> <<>>,
     shape |-> "", i |-> 0, log |-> <<>>, result |-> Pending, next |-> NoneVal,
     awaiting |-> NoneVal]

\* A call the invocation made on a collaborator.
Event(op, idx, perm, args) == [op |-> op, idx |-> idx, perm |-> perm, args |-> args]

\* next_(source, info, **kwargs): the object the wrapped resolver hands back
\* for these arguments.  `data` is the field's value (for a future, the value
\* it resolves to); `pos` counts the elements taken from an async generator.
NextReturn(shape, args) ==
    CASE shape = "plain"  -> MkVal("value", "", args, {}, 0)
      [] shape = "future" -> MkVal("future", "next", args, {}, 0)
      [] OTHER            -> MkVal("asyncgen", "next", args, {}, 0)

\* The value a future resolves to.
Resolved(fut) == MkVal("value", "", fut.data, {}, 0)

\* A check wrapped in try/except: a has_permission that raises counts as one
\* that returned False.
has_permissionGuarded(p, verdict) ==
    IF declared_async[p]
    THEN Return(Coroutine(IF verdict = "raise" THEN "deny" ELSE verdict))
    ELSE IF verdict = "grant" THEN Return(TrueVal) ELSE Return(FalseVal)

\* permission.has_permission(source, info, **kwargs) as seen by its caller:
\* calling an `async def` only makes the coroutine object; a plain method runs
\* its body, which returns a bool or raises.
has_permission(p, verdict) ==
    IF declared_async[p] THEN Return(Coroutine(verdict))
    ELSE CASE verdict = "grant" -> Return(TrueVal)
           [] verdict = "deny"  -> Return(FalseVal)
           [] OTHER             -> Raise(CheckError)

\* Awaiting the coroutine of an `async def has_permission` to its end.
AwaitCheck(co) ==
    CASE co.data = "grant" -> Return(TrueVal)
      [] co.data = "deny"  -> Return(FalseVal)
      [] OTHER             -> Raise(CheckError)

\* The denial test written as `is None`: False no longer denies.
NotPermittedIsNone(v) == v.tag = "None"

\* `if not permission.has_permission(...)` / `if not has_permission`
NotPermitted(v) == ~Truthy(v)

\* The frame at its return statement or at the exception leaving it.
Finish(fr, outcome) == [fr EXCEPT !.pc = "done", !.result = outcome]

\* _on_unauthorized handed the last permission of the list instead of the
\* one that denied.
OnUnauthorizedOfLast(fr, p) ==
    LET last == permissions[Len(permissions)]
    IN  IF fail_silently
        THEN Finish(fr, Return(IF return_empty_list THEN EmptyList ELSE NoneVal))
        ELSE Finish([fr EXCEPT !.log = Append(@, Event("on_unauthorized", fr.i, last, ""))],
                    on_unauthorized(last))

\* _on_unauthorized that raises the default error itself when the
\* permission's on_unauthorized comes back without raising.
OnUnauthorizedAlwaysRaises(fr, p) ==
    IF fail_silently
    THEN Finish(fr, Return(IF return_empty_list THEN EmptyList ELSE NoneVal))
    ELSE Finish([fr EXCEPT !.log = Append(@, Event("on_unauthorized", fr.i, p, ""))],
                IF on_unauthorized(p).kind = "raise" THEN on_unauthorized(p)
                ELSE DefaultOnUnauthorized(p))

\* PermissionExtension._on_unauthorized(permission), as `return
\* self._on_unauthorized(permission)` ends the invocation.
OnUnauthorized(fr, p) ==
    IF fail_silently
    THEN Finish(fr, Return(IF return_empty_list THEN EmptyList ELSE NoneVal))
    ELSE Finish([fr EXCEPT !.log = Append(@, Event("on_unauthorized", fr.i, p, ""))],
                on_unauthorized(p))

\* The arguments kept on the extension, where the invocation that started
\* last leaves its own: invocation 2's while it is under way.
NextArgumentsShared(fr) ==
    IF frames[2].pc # "idle" THEN frames[2].args ELSE fr.args

\* next_ called with arguments other than the ones received.
NextArgumentsFixed(fr) == "a1"

\* The arguments next_ is called with.
NextArguments(fr) == fr.args

\* `next_(source, info, **kwargs)`
CallNext(fr) ==
    LET a == NextArguments(fr)
    IN  [fr EXCEPT !.log  = Append(@, Event("next", 0, 0, a)),
                   !.next = NextReturn(fr.shape, a)]

\* The frame after the call permission.has_permission(...) at position i.
Checked(fr, i) ==
    [fr EXCEPT !.i = i,
               !.log = Append(@, Event("check", i, permissions[i], fr.args))]

\* Where the for loop goes after the check at position i let the request pass.
AfterGrant(i) == i + 1

\* PermissionExtension.resolve: the for loop from position i, then next_.
RECURSIVE ResolveLoop(_, _)
ResolveLoop(fr, i) ==
    IF i > Len(permissions)
    THEN LET called == CallNext(fr)
         IN  Finish(called, Return(called.next))
    ELSE LET p  == permissions[i]
             hp == has_permission(p, fr.verdict[i])
             f1 == Checked(fr, i)
         IN  IF hp.kind = "raise" THEN Finish(f1, hp)
             ELSE IF NotPermitted(hp.val) THEN OnUnauthorized(f1, p)
             ELSE ResolveLoop(f1, AfterGrant(i))

\* The frame of a new invocation.
NewFrame(mode, args, verdict, shape) ==
    [IdleFrame EXCEPT !.pc = "running", !.mode = mode, !.args = args,
                      !.verdict = verdict, !.shape = shape]

\* resolve(next_, source, info, **kwargs): the whole call
Resolve(r, args, verdict, shape) ==
    /\ frames[r].pc = "idle"
    /\ frames' = [frames EXCEPT ![r] =
                    ResolveLoop(NewFrame("sync", args, verdict, shape), 1)]
    /\ UNCHANGED <<extension_vars, sync_cache, declared_async, directive_slot,
                   next_object, field, apply_outcome, sync_reads, permission_calls>>

-----------------------------------------------------------------------------
(* resolve_async: the coroutine runs from one suspension point to the next *)

\* The coroutine suspended in `await` on the awaitable `obj`.
Suspend(fr, pc, obj) ==
    [fr EXCEPT !.pc = pc, !.awaiting = obj,
               !.log = Append(@, Event("await", 0, 0, pc))]

\* `return next` whatever next is: a future is handed back unawaited.
ReturnNextUnawaited(fr) == Finish(fr, Return(fr.next))

\* `return next` for an async generator, `return await next` otherwise:
\* awaiting an object that is not awaitable raises TypeError.
ReturnNext(fr) ==
    IF IsAsyncGen(fr.next) THEN Finish(fr, Return(fr.next))
    ELSE IF IsAwaitable(fr.next) THEN Suspend(fr, "await_next", fr.next)
    ELSE Finish(fr, Raise(AwaitTypeError))

\* resolve_async: the for loop from position i up to its next suspension.
\* await_maybe hands a value that is not awaitable straight back.
RECURSIVE AsyncLoop(_, _)
AsyncLoop(fr, i) ==
    IF i > Len(permissions)
    THEN ReturnNext(CallNext(fr))
    ELSE LET p  == permissions[i]
             hp == has_permission(p, fr.verdict[i])
             f1 == Checked(fr, i)
         IN  IF hp.kind = "raise" THEN Finish(f1, hp)
             ELSE IF IsAwaitable(hp.val) THEN Suspend(f1, "await_check", hp.val)
             ELSE IF NotPermitted(hp.val) THEN OnUnauthorized(f1, p)
             ELSE AsyncLoop(f1, AfterGrant(i))

\* resolve_async(next_, source, info, **kwargs): the call, up to the first
\* suspension (or to the end when nothing suspends)
ResolveAsync(r, args, verdict, shape) ==
    /\ frames[r].pc = "idle"
    /\ frames' = [frames EXCEPT ![r] =
                    AsyncLoop(NewFrame("async", args, verdict, shape), 1)]
    /\ UNCHANGED <<extension_vars, sync_cache, declared_async, directive_slot,
                   next_object, field, apply_outcome, sync_reads, permission_calls>>

\* The awaited check completes: `has_permission = await await_maybe(...)`,
\* then the rest of the loop up to the next suspension.
AfterCheck(fr) ==
    LET out == AwaitCheck(fr.awaiting)
        f1  == [fr EXCEPT !.pc = "running", !.awaiting = NoneVal,
                          !.log = Append(@, Event("resolved", fr.i,
                                                  permissions[fr.i], fr.args))]
    IN  IF out.kind = "raise" THEN Finish(f1, out)
        ELSE IF NotPermitted(out.val) THEN OnUnauthorized(f1, permissions[fr.i])
        ELSE AsyncLoop(f1, AfterGrant(fr.i))

\* The awaited result of next_ completes: `return await next`
AfterNext(fr) ==
    Finish([fr EXCEPT !.awaiting = NoneVal], Return(Resolved(fr.awaiting)))

\* The event loop resumes invocation r at the check it waits for.
ResumeCheck(r) ==
    /\ frames[r].pc = "await_check"
    /\ frames' = [frames EXCEPT ![r] = AfterCheck(frames[r])]
    /\ UNCHANGED <<extension_vars, sync_cache, declared_async, directive_slot,
                   next_object, field, apply_outcome, sync_reads, permission_calls>>

\* The event loop resumes invocation r at the result of next_ it waits for.
ResumeNext(r) ==
    /\ frames[r].pc = "await_next"
    /\ frames' = [frames EXCEPT ![r] = AfterNext(frames[r])]
    /\ UNCHANGED <<extension_vars, sync_cache, declared_async, directive_slot,
                   next_object, field, apply_outcome, sync_reads, permission_calls>>

\* The coroutine driven to its end with nothing else running in between.
RECURSIVE Drive(_)
Drive(fr) ==
    IF fr.pc = "await_check" THEN Drive(AfterCheck(fr))
    ELSE IF fr.pc = "await_next" THEN Drive(AfterNext(fr))
    ELSE fr

\* resolve_async with the inputs of invocation fr, running alone from its
\* call to its end.
Alone(fr) ==
    Drive(AsyncLoop(NewFrame("async", fr.args, fr.verdict, fr.shape), 1))

\* The invocation is over and its caller has taken the result: the frame is gone.
Forget(r) ==
    /\ frames[r].pc = "done"
    /\ frames' = [frames EXCEPT ![r] = IdleFrame]
    /\ UNCHANGED <<extension_vars, sync_cache, declared_async, directive_slot,
                   next_object, field, apply_outcome, sync_reads, permission_calls>>

-----------------------------------------------------------------------------
(* BasePermission.schema_directive and PermissionExtension.apply *)

\* The threads that read schema_directive.
Threads == {1, 2}

\* A thread that is not reading schema_directive: pc "idle"; perm is the
\* permission of its last read and got the object that read returned (0: none).
IdleGetter == [pc |-> "idle", perm |-> 0, made |-> 0, got |-> 0]

\* A directive some other code put on the field.
ForeignDirective == -1

\* schema_directive kept in the class attribute instead of on the instance:
\* whichever permission made a directive first, all of them hand that one out.
SchemaDirectiveOfClass(slots, ctr, p) ==
    IF \A q \in Perms : slots[q] = 0
    THEN [slots |-> [slots EXCEPT ![p] = ctr], ctr |-> ctr + 1, obj |-> ctr]
    ELSE LET d == slots[CHOOSE q \in Perms : slots[q] # 0]
         IN  [slots |-> [slots EXCEPT ![p] = d], ctr |-> ctr, obj |-> d]

\* schema_directive that never stores the object it makes.
SchemaDirectiveUnstored(slots, ctr, p) ==
    [slots |-> slots, ctr |-> ctr + 1, obj |-> ctr]

\* The property schema_directive read on permission p, with the slots and the
\* object counter as they are: the object it returns, and the slots and the
\* counter afterwards.  An AutoDirective() object is truthy, so
\* `not self._schema_directive` holds exactly while the slot is None.
SchemaDirective(slots, ctr, p) ==
    IF slots[p] = 0
    THEN [slots |-> [slots EXCEPT ![p] = ctr], ctr |-> ctr + 1, obj |-> ctr]
    ELSE [slots |-> slots, ctr |-> ctr, obj |-> slots[p]]

\* [perm.schema_directive for perm in self.permissions if perm.schema_directive]
\* from position i on: the list, and the slots and the counter afterwards.
RECURSIVE PermissionDirectives(_, _, _, _)
PermissionDirectives(perms, slots, ctr, i) ==
    IF i > Len(perms) THEN [slots |-> slots, ctr |-> ctr, list |-> <<>>]
    ELSE LET test == SchemaDirective(slots, ctr, perms[i])
             get  == SchemaDirective(test.slots, test.ctr, perms[i])
             rest == PermissionDirectives(perms, get.slots, get.ctr, i + 1)
         IN  [rest EXCEPT !.list = IF test.obj # 0 THEN <<get.obj>> \o @ ELSE @]

\* No membership test before the append.
PresentNever(d, directives) == FALSE

\* `perm_directive in field.directives`: AutoDirective defines no __eq__, so
\* membership is by identity.
Present(d, directives) == \E j \in DOMAIN directives : directives[j] = d

\* for perm_directive in permission_directives: skip it when present, else append
RECURSIVE AttachDirectives(_, _, _)
AttachDirectives(directives, pds, i) ==
    IF i > Len(pds) THEN directives
    ELSE AttachDirectives(IF Present(pds[i], directives) THEN directives
                          ELSE Append(directives, pds[i]),
                          pds, i + 1)

\* isinstance(field.type, StrawberryOptional)
IsOptional(type) == type \in {"optional", "optional_list"}

\* The type is a StrawberryList, or a StrawberryOptional of one.
IsListShape(type) == type \in {"list", "optional_list"}

\* apply that sets return_empty_list anew for each accepted field: True for a
\* list shape, False for a bare optional.
SilentSetupPerField(type, rel) ==
    IF ~fail_silently THEN [rel |-> rel, outcome |-> Return(NoneVal)]
    ELSE IF IsOptional(type) \/ type = "list"
         THEN [rel |-> IsListShape(type), outcome |-> Return(NoneVal)]
    ELSE [rel |-> rel, outcome |-> Raise(ConfigurationError)]

\* apply without its final `else: raise`: every field type is accepted.
SilentSetupLenient(type, rel) ==
    [rel |-> IF fail_silently /\ IsListShape(type) THEN TRUE ELSE rel,
     outcome |-> Return(NoneVal)]

\* The fail_silently part of apply: the new return_empty_list and whether
\* PermissionFailSilentlyRequiresOptionalError is raised.
SilentSetup(type, rel) ==
    IF ~fail_silently THEN [rel |-> rel, outcome |-> Return(NoneVal)]
    ELSE IF IsOptional(type)
         THEN [rel |-> IF IsListShape(type) THEN TRUE ELSE rel,
               outcome |-> Return(NoneVal)]
    ELSE IF type = "list" THEN [rel |-> TRUE, outcome |-> Return(NoneVal)]
    ELSE [rel |-> rel, outcome |-> Raise(ConfigurationError)]

\* apply that checks the field's type first and touches the field only when
\* the type is accepted.
ApplyToValidatingFirst(f, again) ==
    LET setup == SilentSetup(f.type, return_empty_list)
        ok    == setup.outcome.kind = "return"
        pds   == IF use_directives /\ ok
                 THEN PermissionDirectives(permissions, directive_slot, next_object, 1)
                 ELSE [slots |-> directive_slot, ctr |-> next_object, list |-> <<>>]
        dirs  == AttachDirectives(f.directives, pds.list, 1)
    IN  /\ field' = [f EXCEPT !.directives = dirs]
        /\ directive_slot' = pds.slots
        /\ next_object' = pds.ctr
        /\ return_empty_list' = setup.rel
        /\ apply_outcome' =
              [calls  |-> IF again THEN 2 ELSE 1,
               result |-> setup.outcome,
               before |-> f.directives,
               perms  |-> permissions,
               prev_perms |-> apply_outcome.perms]
        /\ UNCHANGED <<permissions, use_directives, fail_silently, sync_cache,
                       declared_async, frames, sync_reads, permission_calls>>

\* PermissionExtension.apply(f): the whole call on the field f
ApplyTo(f, again) ==
    LET pds   == IF use_directives
                 THEN PermissionDirectives(permissions, directive_slot, next_object, 1)
                 ELSE [slots |-> directive_slot, ctr |-> next_object, list |-> <<>>]
        dirs  == AttachDirectives(f.directives, pds.list, 1)
        setup == SilentSetup(f.type, return_empty_list)
    IN  /\ field' = [f EXCEPT !.directives = dirs]
        /\ directive_slot' = pds.slots
        /\ next_object' = pds.ctr
        /\ return_empty_list' = setup.rel
        /\ apply_outcome' =
              [calls  |-> IF again THEN 2 ELSE 1,
               result |-> setup.outcome,
               before |-> f.directives,
               perms  |-> permissions,
               prev_perms |-> apply_outcome.perms]
        /\ UNCHANGED <<permissions, use_directives, fail_silently, sync_cache,
                       declared_async, frames, sync_reads, permission_calls>>

\* The directive lists a field may carry before apply: nothing, another
\* code's directive, and a permission's directive somebody attached already.
FreshDirectives ==
    {<<>>, <<ForeignDirective>>}
    \cup {<<directive_slot[p]>> : p \in {q \in Perms : directive_slot[q] # 0}}
    \cup {<<ForeignDirective, directive_slot[p]>> :
            p \in {q \in Perms : directive_slot[q] # 0}}

\* apply on a field that was not set up before
ApplyNew(type, directives) ==
    ApplyTo([type |-> type, directives |-> directives], FALSE)

\* apply once more on the field that was set up last
ApplyAgain ==
    /\ apply_outcome.calls > 0
    /\ ApplyTo(field, TRUE)

-----------------------------------------------------------------------------
(* Reads of BasePermission.schema_directive by other code *)

\* permission.schema_directive read by thread t, the whole getter with no
\* other thread in it.
ReadSchemaDirective(t, p) ==
    LET get == SchemaDirective(directive_slot, next_object, p)
    IN  /\ \A u \in Threads : getters[u].pc = "idle"
        /\ directive_slot' = get.slots
        /\ next_object' = get.ctr
        /\ getters' = [getters EXCEPT ![t] =
                          [pc |-> "idle", perm |-> p,
                           made |-> IF directive_slot[p] = 0 THEN get.obj ELSE 0,
                           got |-> get.obj]]
        /\ UNCHANGED <<permissions, use_directives, fail_silently,
                       return_empty_list, sync_cache, declared_async, field,
                       apply_outcome, frames, sync_reads, unauthorized>>

\* The same getter run by threads that the interpreter may switch between any
\* two of its steps.  First step, `if not self._schema_directive`:
GetterTest(t, p) ==
    /\ getters[t].pc = "idle"
    /\ getters' = [getters EXCEPT ![t] =
                      [pc |-> IF directive_slot[p] = 0 THEN "store" ELSE "return",
                       perm |-> p, made |-> 0, got |-> 0]]
    /\ UNCHANGED <<permissions, use_directives, fail_silently,
                   return_empty_list, sync_cache, declared_async, directive_slot,
                   next_object, field, apply_outcome, frames, sync_reads,
                   unauthorized>>

\* `self._schema_directive = AutoDirective()`
GetterStore(t) ==
    /\ getters[t].pc = "store"
    /\ directive_slot' = [directive_slot EXCEPT ![getters[t].perm] = next_object]
    /\ next_object' = next_object + 1
    /\ getters' = [getters EXCEPT ![t].pc = "return", ![t].made = next_object]
    /\ UNCHANGED <<permissions, use_directives, fail_silently,
                   return_empty_list, sync_cache, declared_async, field,
                   apply_outcome, frames, sync_reads, unauthorized>>

\* `return self._schema_directive`
GetterReturn(t) ==
    /\ getters[t].pc = "return"
    /\ getters' = [getters EXCEPT ![t].pc = "idle",
                                  ![t].got = directive_slot[getters[t].perm]]
    /\ UNCHANGED <<permissions, use_directives, fail_silently,
                   return_empty_list, sync_cache, declared_async, directive_slot,
                   next_object, field, apply_outcome, frames, sync_reads,
                   unauthorized>>

-----------------------------------------------------------------------------
(* PermissionExtension.supports_sync, a functools.cached_property *)

\* [True for permission in self.permissions
\*  if iscoroutinefunction(permission.has_permission)]
AsyncPermissions ==
    SelectSeq([i \in DOMAIN permissions |-> declared_async[permissions[i]]],
              LAMBDA b : b)

\* The body of supports_sync.
ComputeSupportsSync == Len(AsyncPermissions) = 0

\* supports_sync as a plain property: the body runs at every read.
SupportsSyncRecomputed == ComputeSupportsSync

\* What a read of the attribute finds: cached_property runs the body when the
\* instance holds no value yet, and hands back the held value otherwise.
SupportsSyncValue ==
    IF sync_cache = <<>> THEN ComputeSupportsSync ELSE sync_cache[1]

\* A read of extension.supports_sync
ReadSupportsSync ==
    LET v == SupportsSyncValue
    IN  /\ sync_cache' = <<v>>
        /\ sync_reads' =
              IF sync_reads.count = 0
              THEN [count |-> 1, first |-> v, last |-> v,
                    perms |-> permissions, async |-> declared_async]
              ELSE [sync_reads EXCEPT !.count = 2, !.last = v]
        /\ UNCHANGED <<extension_vars, declared_async, directive_slot,
                       next_object, field, apply_outcome, frames, permission_calls>>

-----------------------------------------------------------------------------
(* What other code may do to the objects between the extension's calls *)

NoneSuspended == \A r \in Requests : frames[r].pc \in {"idle", "done"}

\* permission.has_permission is rebound to a method of the other kind
\* (a plain method for an `async def`, or the reverse).
SetDeclaredMode(p) ==
    /\ NoneSuspended
    /\ declared_async' = [declared_async EXCEPT ![p] = ~@]
    /\ UNCHANGED <<extension_vars, sync_cache, directive_slot, next_object,
                   field, apply_outcome, frames, sync_reads, permission_calls>>

\* extension.permissions.append(p)
AppendPermission(p) ==
    /\ NoneSuspended
    /\ Len(permissions) < MaxLen
    /\ permissions' = Append(permissions, p)
    /\ UNCHANGED <<use_directives, fail_silently, return_empty_list, sync_cache,
                   declared_async, directive_slot, next_object, field,
                   apply_outcome, frames, sync_reads, permission_calls>>

-----------------------------------------------------------------------------
(* Direct calls of the default on_unauthorized *)

ErrorClasses == {"StrawberryGraphQLError", "CustomError"}
Messages     == {<<>>, <<"">>, <<"m1">>}
ExtKeys      == {"code", "perm"}
ExtValues    == {"E0", "P2"}

\* The extension mappings over ExtKeys: sets of pairs with distinct keys.
ExtensionMaps ==
    {m \in SUBSET (ExtKeys \X ExtValues) :
        \A a \in m, b \in m : a[1] = b[1] => a = b}

\* permission.on_unauthorized() on a permission that keeps the default
\* method, of a class with these attributes.
CallOnUnauthorized(cls, msg, pre, more) ==
    /\ unauthorized' = [called |-> TRUE, cls |-> cls, msg |-> msg, pre |-> pre,
                        more |-> more,
                        outcome |-> RaiseUnauthorized(cls, msg, pre, more)]
    /\ UNCHANGED <<permissions, use_directives, fail_silently, return_empty_list,
                   sync_cache, declared_async, directive_slot, next_object,
                   field, apply_outcome, frames, sync_reads, getters>>

\* The same call on permission p of the three classes above.
CallOnUnauthorizedOf(p) ==
    /\ ~OverridesOnUnauthorized(p)
    /\ unauthorized' = [called |-> TRUE, cls |-> error_class(p),
                        msg |-> message(p),
                        pre |-> ClassExtensions(error_class(p)),
                        more |-> error_extensions(p),
                        outcome |-> on_unauthorized(p)]
    /\ UNCHANGED <<permissions, use_directives, fail_silently, return_empty_list,
                   sync_cache, declared_async, directive_slot, next_object,
                   field, apply_outcome, frames, sync_reads, getters>>

-----------------------------------------------------------------------------
(* Specifications *)

\* The lists of at most n permissions.
RECURSIVE ListsUpTo(_)
ListsUpTo(n) ==
    IF n = 0 THEN {<<>>}
    ELSE LET shorter == ListsUpTo(n - 1)
         IN  shorter \cup {Append(l, p) : l \in {m \in shorter : Len(m) = n - 1},
                                          p \in Perms}

\* PermissionExtension.__init__(permissions, use_directives, fail_silently),
\* with permissions that were never asked for their directive.
InitExtension ==
    /\ permissions \in ListsUpTo(MaxLen)
    /\ use_directives \in BOOLEAN
    /\ fail_silently \in BOOLEAN
    /\ return_empty_list = FALSE
    /\ sync_cache = <<>>
    /\ directive_slot = [p \in Perms |-> 0]
    /\ next_object = 1
    /\ field = [type |-> "scalar", directives |-> <<>>]
    /\ apply_outcome = [calls |-> 0, result |-> Pending, before |-> <<>>,
                        perms |-> <<>>, prev_perms |-> <<>>]
    /\ frames = [r \in Requests |-> IdleFrame]
    /\ sync_reads = [count |-> 0, first |-> TRUE, last |-> TRUE,
                     perms |-> <<>>, async |-> [p \in Perms |-> FALSE]]
    /\ unauthorized = [called |-> FALSE, cls |-> "", msg |-> <<>>, pre |-> {},
                       more |-> {}, outcome |-> Pending]
    /\ getters = [t \in Threads |-> IdleGetter]

\* The verdicts of the checks of one request, one per position of the list.
VerdictLists == [DOMAIN permissions -> Verdicts]

\* The caller of invocation r holds no frame of it.
CanCall(r) == frames[r].pc = "idle"

\* Requests against an extension as constructed: every permission list, every
\* mix of plain and `async def` checks, every request.
Init ==
    /\ InitExtension
    /\ declared_async \in [Perms -> BOOLEAN]

Next ==
    \/ /\ CanCall(1)
       /\ \E a \in Args, v \in VerdictLists, s \in NextShapes : Resolve(1, a, v, s)
    \/ /\ CanCall(1)
       /\ \E a \in Args, v \in VerdictLists, s \in NextShapes : ResolveAsync(1, a, v, s)
    \/ ResumeCheck(1)
    \/ ResumeNext(1)
    \/ Forget(1)

Spec == Init /\ [][Next]_vars

\* Setup and requests: apply on fields of every type, then requests whose
\* checks are all plain methods or all `async def`.
InitSetup ==
    /\ InitExtension
    /\ declared_async \in {[p \in Perms |-> b] : b \in BOOLEAN}

NextSetup ==
    \/ \E t \in FieldTypes : ApplyNew(t, <<>>)
    \/ /\ CanCall(1)
       /\ \E v \in VerdictLists : Resolve(1, "a1", v, "future")
    \/ /\ CanCall(1)
       /\ \E v \in VerdictLists : ResolveAsync(1, "a1", v, "future")
    \/ ResumeCheck(1)
    \/ ResumeNext(1)
    \/ Forget(1)

SpecSetup == InitSetup /\ [][NextSetup]_vars

\* Directive attachment: apply on new fields and again on the same field,
\* with permissions appended in between.
InitApply ==
    /\ InitExtension
    /\ declared_async = [p \in Perms |-> FALSE]

NextApply ==
    \/ \E t \in FieldTypes, d \in FreshDirectives : ApplyNew(t, d)
    \/ ApplyAgain
    \/ \E p \in Perms : AppendPermission(p)

SpecApply == InitApply /\ [][NextApply]_vars

\* The capability query: reads of supports_sync while the permissions' modes
\* and the permission list change.
NextSync ==
    \/ ReadSupportsSync
    \/ \E p \in Perms : SetDeclaredMode(p)
    \/ \E p \in Perms : AppendPermission(p)

SpecSync == Init /\ [][NextSync]_vars

\* The default on_unauthorized alone, on permissions of every class, message
\* and extension mapping.
InitError ==
    /\ InitExtension
    /\ permissions = <<>>
    /\ declared_async = [p \in Perms |-> FALSE]

NextError ==
    \/ \E cls \in ErrorClasses, msg \in Messages,
          pre \in ExtensionMaps, more \in ExtensionMaps :
            CallOnUnauthorized(cls, msg, pre, more)
    \/ \E p \in Perms : CallOnUnauthorizedOf(p)

SpecError == InitError /\ [][NextError]_vars

\* schema_directive read by other code between the applies of an extension
\* that attaches directives, one read at a time.
InitDirective ==
    /\ InitApply
    /\ use_directives
    /\ ~fail_silently

NextDirective ==
    \/ \E t \in Threads, p \in Perms : ReadSchemaDirective(t, p)
    \/ \E type \in FieldTypes : ApplyNew(type, <<>>)
    \/ ApplyAgain

SpecDirective == InitDirective /\ [][NextDirective]_vars

\* schema_directive read by two threads at once, before any apply.
InitRace ==
    /\ InitApply
    /\ permissions = <<>>

NextRace ==
    \/ \E t \in Threads, p \in Perms : GetterTest(t, p)
    \/ \E t \in Threads : GetterStore(t)
    \/ \E t \in Threads : GetterReturn(t)

SpecRace == InitRace /\ [][NextRace]_vars

\* Two invocations on one extension, resolve_async ones interleaved at their
\* suspension points and resolve ones in between: permissions 1 and 2 have
\* `async def` checks, 3 a plain one; the invocations have different arguments.
InitConc ==
    /\ InitExtension
    /\ use_directives
    /\ declared_async = [p \in Perms |-> p # 3]

NextConc ==
    \/ /\ CanCall(1)
       /\ \E v \in VerdictLists : ResolveAsync(1, "a1", v, "future")
    \/ /\ CanCall(2)
       /\ \E v \in VerdictLists : ResolveAsync(2, "a2", v, "future")
    \/ /\ CanCall(2)
       /\ \E v \in VerdictLists : Resolve(2, "a2", v, "future")
    \/ \E r \in Requests : ResumeCheck(r)
    \/ \E r \in Requests : ResumeNext(r)
    \/ \E r \in Requests : Forget(r)

SpecConc == InitConc /\ [][NextConc]_vars

-----------------------------------------------------------------------------
(* What an invocation observed, for the properties below *)

\* What the check at position j gives the invocation: resolve_async awaits the
\* coroutine of an `async def` check and gets its verdict; resolve gets the
\* coroutine object itself, which is not a denial (its body never runs).
Observed(fr, j) ==
    IF fr.mode = "sync" /\ declared_async[permissions[j]] THEN "grant"
    ELSE fr.verdict[j]

\* The first denying permission of the request is at position k: the check
\* at k denies and every check before it lets the request pass.
FirstDenyAt(fr, k) ==
    /\ k \in DOMAIN fr.verdict
    /\ Observed(fr, k) = "deny"
    /\ \A j \in 1..(k - 1) : Observed(fr, j) = "grant"

\* Every check lets the request pass (also when there is none).
AllPass(fr) == \A j \in DOMAIN fr.verdict : Observed(fr, j) = "grant"

EventsOf(fr, op) == SelectSeq(fr.log, LAMBDA e : e.op = op)

\* The check events are those of positions 1..n, once each, in order.
ChecksInOrder(fr, n) ==
    LET checks == EventsOf(fr, "check")
    IN  /\ Len(checks) = n
        /\ \A j \in 1..n : /\ checks[j].idx = j
                           /\ checks[j].perm = permissions[j]
                           /\ checks[j].args = fr.args

-----------------------------------------------------------------------------
(* Properties *)

\* C1: when the first denying permission of a request is at position k, the
\* invocation (resolve or resolve_async) calls the checks at positions 1..k
\* once each, in declared order (while it runs: a prefix of them), and calls
\* neither a check after k nor next_.
C1_ShortCircuit ==
    \A r \in Requests : \A k \in DOMAIN frames[r].verdict :
        LET fr == frames[r]
        IN  FirstDenyAt(fr, k) =>
              /\ \E n \in 0..k : ChecksInOrder(fr, n)
              /\ fr.pc = "done" => ChecksInOrder(fr, k)
              /\ EventsOf(fr, "next") = <<>>

\* C1 witness: a finished resolve_async whose first check denied while a
\* later permission, which would have denied too, was never asked.
C1_Witness ==
    /\ frames[1].pc = "done" /\ frames[1].mode = "async"
    /\ Len(permissions) = 2
    /\ FirstDenyAt(frames[1], 1)
    /\ frames[1].verdict[2] = "deny"
    /\ Len(EventsOf(frames[1], "check")) = 1

\* C2: with fail_silently false, a request whose first denying permission is
\* at position k ends as on_unauthorized of that permission ends: it fails
\* with that permission's error (its error class, its message), and
\* on_unauthorized is called on that permission alone.
C2_FirstDenialSurfaces ==
    \A r \in Requests : \A k \in DOMAIN frames[r].verdict :
        LET fr == frames[r]
            p  == permissions[k]
        IN  (fr.pc = "done" /\ ~fail_silently /\ FirstDenyAt(fr, k)) =>
              /\ fr.result = on_unauthorized(p)
              /\ ~OverridesOnUnauthorized(p) =>
                    /\ fr.result.kind = "raise"
                    /\ fr.result.val.id = error_class(p)
                    /\ fr.result.val.data = MessageOrEmpty(p)
              /\ EventsOf(fr, "on_unauthorized") = <<Event("on_unauthorized", k, p, "")>>

\* C2 witness: two different permissions deny, and the request failed with
\* the error of the first one.
C2_Witness ==
    /\ frames[1].pc = "done" /\ ~fail_silently
    /\ permissions = <<2, 1>>
    /\ FirstDenyAt(frames[1], 1)
    /\ frames[1].verdict[2] = "deny"
    /\ frames[1].result.kind = "raise"
    /\ frames[1].result.val.id = "CustomError"

\* C3 (as claimed): after a successful apply(field) with fail_silently
\* true, a denial in resolve or resolve_async raises nothing, calls no
\* on_unauthorized, and returns None for a bare optional field and an empty
\* list for a list or optional-of-list field.
C3_SilentSentinel ==
    [][\A r \in Requests :
        ( /\ frames[r].pc # "done" /\ frames'[r].pc = "done"
          /\ fail_silently
          /\ apply_outcome.calls > 0 /\ apply_outcome.result.kind = "return"
          /\ \E k \in DOMAIN frames'[r].verdict : FirstDenyAt(frames'[r], k) )
        => /\ frames'[r].result =
                Return(IF IsListShape(field.type) THEN EmptyList ELSE NoneVal)
           /\ EventsOf(frames'[r], "on_unauthorized") = <<>>]_vars

C5_DelegatesToNext ==
    \A r \in Requests :
        LET fr == frames[r]
        IN  (fr.pc = "done" /\ fr.mode = "sync" /\ AllPass(fr)) =>
              /\ ChecksInOrder(fr, Len(permissions))
              /\ EventsOf(fr, "next") = <<Event("next", 0, 0, fr.args)>>
              /\ fr.log[Len(fr.log)].op = "next"
              /\ EventsOf(fr, "on_unauthorized") = <<>>
              /\ fr.next = NextReturn(fr.shape, fr.args)
              /\ fr.result = Return(fr.next)

\* C5 witness: a finished resolve over two passing permissions, called with
\* the second argument triple, which returned next_'s value for it.
C5_Witness ==
    /\ frames[1].pc = "done" /\ frames[1].mode = "sync"
    /\ Len(permissions) = 2 /\ AllPass(frames[1])
    /\ frames[1].args = "a2"
    /\ frames[1].result.kind = "return" /\ frames[1].result.val.data = "a2"

\* C6 (as claimed): in resolve_async, after every check passed, a plain value
\* from next_ is returned directly and a future is awaited and its resolved
\* value returned.
C6_PlainOrFuture ==
    \A r \in Requests :
        LET fr == frames[r]
        IN  (fr.pc = "done" /\ fr.mode = "async" /\ AllPass(fr)) =>
              /\ fr.shape = "plain" =>
                    fr.result = Return(NextReturn("plain", fr.args))
              /\ fr.shape = "future" =>
                    fr.result = Return(Resolved(NextReturn("future", fr.args)))

\* C6 (amended): in resolve_async, after every check passed, a future from
\* next_ is awaited and its resolved value returned; a plain value is not
\* returned: `await next` on it raises TypeError.
C6_AwaitsNext ==
    \A r \in Requests :
        LET fr == frames[r]
        IN  (fr.pc = "done" /\ fr.mode = "async" /\ AllPass(fr)) =>
              /\ fr.shape = "future" =>
                    /\ fr.result = Return(Resolved(NextReturn("future", fr.args)))
                    /\ \E j \in DOMAIN fr.log :
                          fr.log[j] = Event("await", 0, 0, "await_next")
              /\ fr.shape = "plain" => fr.result = Raise(AwaitTypeError)

\* C6 witness: a finished resolve_async whose next_ handed back a future.
C6_Witness ==
    /\ frames[1].pc = "done" /\ frames[1].mode = "async"
    /\ Len(permissions) = 2 /\ AllPass(frames[1])
    /\ frames[1].shape = "future"
    /\ frames[1].result = Return(MkVal("value", "", "a2", {}, 0))

\* C7: in resolve_async, an async generator handed back by next_ is never
\* awaited, and after every check passed it is returned as it is: the same
\* object, with no element taken from it.
C7_AsyncGenUntouched ==
    \A r \in Requests :
        LET fr == frames[r]
        IN  (fr.mode = "async" /\ fr.shape = "asyncgen") =>
              /\ fr.pc # "await_next"
              /\ \A j \in DOMAIN fr.log : fr.log[j] # Event("await", 0, 0, "await_next")
              /\ (fr.pc = "done" /\ AllPass(fr)) =>
                    /\ fr.result = Return(NextReturn("asyncgen", fr.args))
                    /\ fr.next = NextReturn("asyncgen", fr.args)
                    /\ fr.result.val.id = "next" /\ fr.result.val.pos = 0

\* C7 witness: a finished resolve_async that waited for an `async def` check
\* and then returned next_'s async generator.
C7_Witness ==
    /\ frames[1].pc = "done" /\ frames[1].mode = "async"
    /\ AllPass(frames[1])
    /\ \E j \in DOMAIN frames[1].log : frames[1].log[j].op = "await"
    /\ frames[1].result.kind = "return"
    /\ frames[1].result.val.tag = "asyncgen"

\* C8: the first read of supports_sync gives False exactly when some
\* permission of the list has an `async def` check at that moment; every
\* later read gives the value of the first read, whatever was done to the
\* permissions' checks and to the permission list since.
C8_SupportsSyncStable ==
    sync_reads.count > 0 =>
        /\ sync_reads.first = FALSE <=>
              \E i \in DOMAIN sync_reads.perms :
                  sync_reads.async[sync_reads.perms[i]]
        /\ sync_reads.last = sync_reads.first
        /\ sync_cache = <<sync_reads.first>>

\* C8 witness: supports_sync was read more than once and still gives True,
\* although by now a permission of the list has an `async def` check.
C8_Witness ==
    /\ sync_reads.count = 2
    /\ sync_reads.last = TRUE
    /\ \E i \in DOMAIN permissions : declared_async[permissions[i]]
    /\ permissions # sync_reads.perms

\* The elements of a list.
Range(seq) == {seq[i] : i \in DOMAIN seq}

\* The first position of the list perms whose permission holds directive d.
FirstDeclaring(perms, d) ==
    CHOOSE i \in DOMAIN perms :
        /\ directive_slot[perms[i]] = d
        /\ \A j \in 1..(i - 1) : directive_slot[perms[j]] # d

\* C9: after apply with use_directives true, the field's directive list is
\* the list it had before the call, followed by the directives of the
\* permissions that the list did not hold, once each, in the order of the
\* first permission that has each.
C9_DirectivesAppended ==
    (apply_outcome.calls > 0 /\ use_directives) =>
        LET old   == apply_outcome.before
            new   == field.directives
            perms == apply_outcome.perms
            added == SubSeq(new, Len(old) + 1, Len(new))
        IN  /\ Len(new) >= Len(old)
            /\ SubSeq(new, 1, Len(old)) = old
            /\ \A i \in DOMAIN perms : directive_slot[perms[i]] # 0
            /\ Range(added) =
                  {directive_slot[perms[i]] : i \in DOMAIN perms} \ Range(old)
            /\ \A a, b \in DOMAIN added :
                  a < b => /\ added[a] # added[b]
                           /\ FirstDeclaring(perms, added[a])
                                < FirstDeclaring(perms, added[b])

\* C9 witness: the field already held another code's directive and the
\* directive of one of the two permissions; apply added the other one's only.
C9_Witness ==
    /\ apply_outcome.calls > 0 /\ use_directives
    /\ Len(apply_outcome.perms) = 2
    /\ apply_outcome.perms[1] # apply_outcome.perms[2]
    /\ apply_outcome.before =
          <<ForeignDirective, directive_slot[apply_outcome.perms[1]]>>
    /\ field.directives =
          Append(apply_outcome.before, directive_slot[apply_outcome.perms[2]])

\* C10: a second apply of the same extension, its permission list as it was,
\* on the same field leaves the field's directive list as the first call
\* left it.
C10_ApplyIdempotent ==
    (apply_outcome.calls = 2 /\ apply_outcome.perms = apply_outcome.prev_perms) =>
        field.directives = apply_outcome.before

\* C10 witness: apply ran twice on a field to which the first call had
\* attached the directives of two permissions.
C10_Witness ==
    /\ apply_outcome.calls = 2 /\ use_directives
    /\ apply_outcome.perms = apply_outcome.prev_perms
    /\ Len(apply_outcome.perms) = 2
    /\ apply_outcome.perms[1] # apply_outcome.perms[2]
    /\ Len(field.directives) >= 2

-----------------------------------------------------------------------------
\* C11: the default on_unauthorized always raises, an error of the
\* permission's error_class whose message is the permission's message ("" when
\* it is unset); when the permission has error_extensions, the raised error's
\* extensions have exactly the keys the error had plus the keys of
\* error_extensions, every entry of error_extensions is in them (so the
\* permission's value wins where both have the key) and every other entry the
\* error had is kept.
C11_DefaultRaises ==
    unauthorized.called =>
        LET o == unauthorized.outcome
            e == o.val
        IN  /\ o.kind = "raise"
            /\ e.tag = "error"
            /\ e.id = unauthorized.cls
            /\ e.data = (IF unauthorized.msg = <<>> THEN "" ELSE unauthorized.msg[1])
            /\ Keys(e.ext) = Keys(unauthorized.pre) \cup Keys(unauthorized.more)
            /\ unauthorized.more \subseteq e.ext
            /\ \A kv \in unauthorized.pre :
                   kv[1] \notin Keys(unauthorized.more) => kv \in e.ext
            /\ Cardinality(e.ext) = Cardinality(Keys(e.ext))

\* C11 witness: a permission without message whose error_extensions give
\* "code" another value than the error has, next to a key only the error has.
C11_Witness ==
    /\ unauthorized.called
    /\ unauthorized.msg = <<>>
    /\ unauthorized.outcome.kind = "raise"
    /\ <<"code", "E0">> \in unauthorized.pre
    /\ <<"code", "P2">> \in unauthorized.more
    /\ <<"code", "P2">> \in unauthorized.outcome.val.ext
    /\ Keys(unauthorized.pre) \ Keys(unauthorized.more) # {}

-----------------------------------------------------------------------------
\* The permissions whose directive exists.
Populated == {p \in Perms : directive_slot[p] # 0}

\* C12: with reads of schema_directive and applies one after the other, a
\* permission's directive is made at most once (as many objects exist as
\* permissions have one), a slot once filled keeps its object, every read gets
\* the object in the slot (so all reads of one permission, by whichever code,
\* get one object), the permission directives on the field are those objects,
\* and two different permissions never have the same object.
C12_OneDirectivePerInstance ==
    [][/\ \A p \in Populated : directive_slot'[p] = directive_slot[p]
       /\ next_object' - 1 = Cardinality({p \in Perms : directive_slot'[p] # 0})
       /\ \A t \in Threads :
             getters'[t].perm # 0 =>
                 /\ getters'[t].got # 0
                 /\ getters'[t].got = directive_slot'[getters'[t].perm]
       /\ \A p \in Perms, q \in Perms :
             (p # q /\ directive_slot'[p] # 0) =>
                 directive_slot'[p] # directive_slot'[q]
       /\ \A j \in DOMAIN field'.directives :
             \E i \in DOMAIN permissions :
                 directive_slot'[permissions[i]] = field'.directives[j]
      ]_vars

\* C12 witness: two pieces of code read the directive of one permission, the
\* field carries it after two applies, and another permission has its own.
C12_Witness ==
    /\ getters[1].perm = 1 /\ getters[2].perm = 1
    /\ getters[1].got = getters[2].got
    /\ apply_outcome.calls = 2
    /\ use_directives
    /\ \E j \in DOMAIN field.directives : field.directives[j] = getters[1].got
    /\ directive_slot[2] # 0

-----------------------------------------------------------------------------
\* C16 (as claimed): when threads read the schema_directive of a permission at
\* the same time for the first time, all of them, and every later read, get one
\* and the same object: whenever two threads have finished a read of the same
\* permission they hold the same object, the one in the permission's slot.
C16_ConcurrentFirstAccess ==
    \A t \in Threads, u \in Threads :
        (/\ getters[t].pc = "idle" /\ getters[u].pc = "idle"
         /\ getters[t].perm # 0
         /\ getters[t].perm = getters[u].perm) =>
            /\ getters[t].got = getters[u].got
            /\ getters[t].got = directive_slot[getters[t].perm]

-----------------------------------------------------------------------------
\* The checks of the invocation that are in flight just before its a-th
\* event: the positions of the log where an `async def` check was called and
\* whose coroutine has not completed by then.
InFlight(fr, a) ==
    {b \in 1..(a - 1) :
        /\ fr.log[b].op = "check"
        /\ declared_async[fr.log[b].perm]
        /\ ~\E c \in (b + 1)..(a - 1) :
               fr.log[c].op = "resolved" /\ fr.log[c].idx = fr.log[b].idx}

\* C13: in a resolve_async invocation no check is in flight when a check is
\* started and none when next_ is called, at most one check is in flight at
\* any time, and one is in flight exactly while the invocation waits for it.
C13_ChecksSequential ==
    \A r \in Requests :
        LET fr == frames[r]
        IN  fr.mode = "async" =>
              /\ \A a \in DOMAIN fr.log :
                     fr.log[a].op \in {"check", "next"} => InFlight(fr, a) = {}
              /\ \A a \in 1..(Len(fr.log) + 1) : Cardinality(InFlight(fr, a)) <= 1
              /\ (InFlight(fr, Len(fr.log) + 1) # {}) <=> (fr.pc = "await_check")

\* C13 witness: an invocation that waited for two `async def` checks, one
\* after the other, and then called next_.
C13_Witness ==
    /\ frames[1].mode = "async"
    /\ frames[1].pc = "done"
    /\ Len(EventsOf(frames[1], "resolved")) = 2
    /\ Len(EventsOf(frames[1], "next")) = 1

-----------------------------------------------------------------------------
\* C14: no step of a resolve or resolve_async invocation changes permissions,
\* use_directives, fail_silently or return_empty_list, nor the frame of
\* another invocation; and however two invocations on one extension are
\* interleaved, each one that has ended made the calls and has the outcome
\* that the same invocation has when it runs alone.
C14_InvocationsIndependent ==
    [][/\ extension_vars' = extension_vars
       /\ \A r \in Requests, q \in Requests :
             (r # q /\ frames'[r] # frames[r]) => frames'[q] = frames[q]
       /\ \A r \in Requests :
             (frames'[r].pc = "done" /\ frames'[r].mode = "async") =>
                 /\ frames'[r].result = Alone(frames'[r]).result
                 /\ frames'[r].log = Alone(frames'[r]).log
      ]_vars

\* C14 witness: invocation 1 has ended with the result of next_ for its own
\* arguments after waiting for two checks, while invocation 2, with other
\* arguments, is waiting for its second check.
C14_Witness ==
    /\ frames[1].pc = "done"
    /\ frames[1].mode = "async"
    /\ Len(EventsOf(frames[1], "resolved")) = 2
    /\ frames[1].result = Return(Resolved(NextReturn("future", "a1")))
    /\ frames[2].pc = "await_check"
    /\ frames[2].i = 2
    /\ frames[2].args = "a2"

-----------------------------------------------------------------------------
\* The first check that does not let the request pass is at position k and
\* fails: its body raises (resolve) or its coroutine does (resolve_async).
FirstRaiseAt(fr, k) ==
    /\ k \in DOMAIN fr.verdict
    /\ Observed(fr, k) = "raise"
    /\ \A j \in 1..(k - 1) : Observed(fr, j) = "grant"

\* C15: when the check at position k fails, with fail_silently true or
\* false, the invocation calls neither on_unauthorized nor next_ nor a check
\* after k, and it ends with the check's own exception: not with a sentinel
\* and not with another error.
C15_CheckFailurePropagates ==
    \A r \in Requests : \A k \in DOMAIN frames[r].verdict :
        LET fr == frames[r]
        IN  FirstRaiseAt(fr, k) =>
              /\ EventsOf(fr, "on_unauthorized") = <<>>
              /\ EventsOf(fr, "next") = <<>>
              /\ \E n \in 0..k : ChecksInOrder(fr, n)
              /\ fr.pc = "done" =>
                    /\ fr.result = Raise(CheckError)
                    /\ ChecksInOrder(fr, k)

\* C15 witness: with fail_silently true, a resolve_async whose first check,
\* an `async def`, failed, with another permission after it; and it ended
\* with that exception.
C15_Witness ==
    /\ frames[1].pc = "done" /\ frames[1].mode = "async"
    /\ fail_silently
    /\ Len(permissions) = 2
    /\ declared_async[permissions[1]]
    /\ FirstRaiseAt(frames[1], 1)
    /\ frames[1].result = Raise(CheckError)

-----------------------------------------------------------------------------
\* C17 (as claimed): next_ is called only after every check of the
\* invocation has resolved to true: in an invocation that called next_, every
\* permission's check grants, and none is an `async def` check called by the
\* synchronous resolve (which gets its coroutine and never its verdict).
C17_NextOnlyAfterGrants ==
    \A r \in Requests :
        LET fr == frames[r]
        IN  EventsOf(fr, "next") # <<>> =>
              \A j \in DOMAIN fr.verdict :
                  /\ fr.verdict[j] = "grant"
                  /\ ~(fr.mode = "sync" /\ declared_async[permissions[j]])

-----------------------------------------------------------------------------
\* C18: with fail_silently false, when the first denying permission, at
\* position k, has an on_unauthorized that returns normally, the invocation
\* calls it once, calls neither next_ nor a check after k, and ends without
\* error, returning what on_unauthorized returned.
C18_OverrideEndsResolution ==
    \A r \in Requests : \A k \in DOMAIN frames[r].verdict :
        LET fr == frames[r]
            p  == permissions[k]
        IN  (/\ ~fail_silently
             /\ FirstDenyAt(fr, k)
             /\ on_unauthorized(p).kind = "return") =>
              /\ EventsOf(fr, "next") = <<>>
              /\ \E n \in 0..k : ChecksInOrder(fr, n)
              /\ fr.pc = "done" =>
                    /\ fr.result.kind = "return"
                    /\ fr.result.val = on_unauthorized(p).val
                    /\ ChecksInOrder(fr, k)
                    /\ EventsOf(fr, "on_unauthorized") =
                          <<Event("on_unauthorized", k, p, "")>>

\* C18 witness: permission 3, whose on_unauthorized returns None, denied in
\* first place with another permission after it, and the invocation returned
\* None.
C18_Witness ==
    /\ frames[1].pc = "done"
    /\ ~fail_silently
    /\ Len(permissions) = 2 /\ permissions[1] = 3
    /\ FirstDenyAt(frames[1], 1)
    /\ frames[1].result = Return(NoneVal)
    /\ Len(EventsOf(frames[1], "check")) = 1

-----------------------------------------------------------------------------
\* C19: when apply ends with the configuration error and use_directives is
\* true, the field is not as a call that did nothing would leave it: every
\* permission of the list has its directive and that directive is on the
\* field, after the directives the field had before the call, so the list
\* has grown whenever a permission's directive was missing from it.
C19_ApplyNotAtomic ==
    (/\ apply_outcome.calls > 0
     /\ apply_outcome.result = Raise(ConfigurationError)
     /\ use_directives) =>
        LET before == apply_outcome.before
            perms  == apply_outcome.perms
        IN  /\ \A i \in DOMAIN perms :
                   /\ directive_slot[perms[i]] # 0
                   /\ Present(directive_slot[perms[i]], field.directives)
            /\ Len(field.directives) >= Len(before)
            /\ SubSeq(field.directives, 1, Len(before)) = before
            /\ (\E i \in DOMAIN perms : ~Present(directive_slot[perms[i]], before))
                  => field.directives # before

\* C19 witness: apply failed on a scalar field that carried another code's
\* directive, and the directives of two permissions are on the field now.
C19_Witness ==
    /\ apply_outcome.calls = 1
    /\ apply_outcome.result = Raise(ConfigurationError)
    /\ use_directives
    /\ apply_outcome.before = <<ForeignDirective>>
    /\ Len(field.directives) = 3

-----------------------------------------------------------------------------
\* C20: return_empty_list is false as long as apply was never called; no step
\* takes it from true to false; it changes only in a step that is an apply,
\* never in a step of resolve or resolve_async; a silent denial returns the
\* empty list exactly when return_empty_list is true at that moment, whatever
\* the type of the field set up last, and None when apply was never called.
C20_EmptyListPolicySticky ==
    [][/\ apply_outcome.calls = 0 => ~return_empty_list
       /\ return_empty_list => return_empty_list'
       /\ return_empty_list' # return_empty_list =>
             /\ frames' = frames
             /\ apply_outcome'.calls > 0
             /\ apply_outcome'.result.kind = "return"
             /\ IsListShape(field'.type)
       /\ \A r \in Requests :
             ( /\ frames[r].pc # "done" /\ frames'[r].pc = "done"
               /\ fail_silently
               /\ \E k \in DOMAIN frames'[r].verdict : FirstDenyAt(frames'[r], k) )
             => /\ frames'[r].result =
                     Return(IF return_empty_list THEN EmptyList ELSE NoneVal)
                /\ apply_outcome.calls = 0 => frames'[r].result = Return(NoneVal)
                /\ return_empty_list' = return_empty_list
      ]_vars

\* C20 witness: the field set up last, with success, is a bare optional, the
\* policy chosen for an earlier list field is still in force, and a silent
\* denial returned the empty list.
C20_Witness ==
    /\ fail_silently
    /\ return_empty_list
    /\ field.type = "optional"
    /\ apply_outcome.result.kind = "return"
    /\ frames[1].pc = "done"
    /\ \E k \in DOMAIN frames[1].verdict : FirstDenyAt(frames[1], k)
    /\ frames[1].result = Return(EmptyList)

=============================================================================
